---- MODULE Spec2Model ----
(***************************************************************************)
(* A model of the TIA SDK core: the streaming client (tia_sdk/client.py,   *)
(* SignalClient) and the execution pipeline (tia_sdk/executor.py,          *)
(* TradeExecutor).  Every coroutine is cut at its await points: one action *)
(* is the code that runs between two suspension points.                    *)
(***************************************************************************)
EXTENDS Integers, Sequences, FiniteSets, TLC

\* ------------------------------------------------------------------ bounds
\* transports (successful websockets.connect calls) the model can open
MaxTransports == 2
\* the count of consecutive failed connect attempts saturates here
MaxStreak == 8
\* the largest max_daily_trades and max_open_positions a configuration sets
MaxLimit == 2
\* calendar days after the day of construction
MaxDay == 1
\* the largest available balance the venue reports
MaxBalance == 1
\* frames the peer sends on one connection
MaxFrames == 2
\* consecutive closes of an absent position that are counted
MaxRepeats == 2
\* partial closes the broadcaster asks for
MaxPartials == 1

\* ------------------------------------------------- SignalClient constants
\* client.py:25 and client.py:52, self.reconnect_delay = 5
InitialDelay == 5
\* client.py:26, self.max_reconnect_delay = 300
max_reconnect_delay == 300
\* client.py:81, self.reconnect_delay * 2
BackoffFactor == 2

Min(a, b) == IF a <= b THEN a ELSE b

VARIABLES
    \* ---- SignalClient
    running,          \* self.running
    ws,               \* self.ws: NoT (None) or the transport it refers to
    reconnect_delay,  \* self.reconnect_delay
    pc,               \* where the start() coroutine is suspended
    tstate,           \* each transport: "new", "open" or "closed"
    listenT,          \* the transport the async-for of start() iterates
    handler,          \* the handler callback in flight, or "none"
    pingTask,         \* the _ping_loop task: "none", "created", "active" (asleep),
                      \* "ended", "cancelled"
    probes,           \* the "ping" frames sent: the transport, and whether its
                      \* read loop was running (history)
    dpc,              \* a caller's disconnect(): "idle", "closing", "returned"
    excPending,       \* an exception is propagating out of the listen block
    streak,           \* connect() calls that returned False in a row (history)
    opened,           \* the current connect attempt opened its transport (history)
    inbox,            \* the frames the transport has buffered, oldest first
    arrived,          \* frames that arrived on the connection (history)
    dispatched,       \* arrival numbers of the frames the loop read, in order (history)
    inflight,         \* arrival numbers of the frames whose callback is running
    message,          \* the loop variable `message`: the frame read last
    handlerOutcome,          \* how the last callback ended: "none", "returned", "raised"
    decodeFailed,     \* a frame of the connection failed to decode (history)
    \* ---- TradeExecutor
    config,           \* self.config: the trading and risk sections
    today,            \* datetime.now().date(), as a day number
    last_reset,       \* self.last_reset
    daily_trades,     \* self.daily_trades
    daily_loss,       \* self.daily_loss
    open_positions,   \* self.open_positions: signal_id -> Signal, NoSignal if absent
    epc,              \* each execute_signal call: the await it is suspended at
    esig,             \* each call's argument `signal`
    eres,             \* each call's returned TradeResult
    gate,             \* each call's local `reason` of _check_risk_limits
    existing,         \* each call's local `existing` (line 119): "unset", "yes", "no"
    venueLog,         \* each call's Venue Gateway calls, in order (history)
    fault,            \* the Venue Gateway call of each call that raised (history)
    \* ---- the venue
    venuePositions,   \* symbols with an open position
    venueOrders,      \* entry orders the venue accepted
    riskOrders,       \* calls whose set_risk_order the venue accepted
    overlap,          \* pairs of calls that were in flight together (history)
    \* ---- close_position, update_sl_tp, update_leverage
    cpc,              \* each command call: the await it is suspended at
    ccmd,             \* each command call's argument
    cres,             \* each command call's returned TradeResult
    cmdLog,           \* each command call's Venue Gateway calls, in order (history)
    cmdFault,         \* the Venue Gateway call of each command call that raised (history)
    venueCloses,      \* the closes and partial closes the venue carried out
    cposQty,          \* each command call's position.quantity, None before the list
    cmdSent,          \* the arguments of each command call's close_partial or set_risk_order
    repeats,          \* closes of an absent position a task made in a row (history)
    partials,         \* partial closes the venue carried out (history)
    closedDuring,     \* the execute_signal calls in flight when each command
                      \* call returned (history)
    posQty,           \* the quantity of each symbol's open position, 0 without one
    filledOrders      \* calls whose entry order the venue filled

frameVars == <<inbox, arrived, dispatched, inflight, message, handlerOutcome, decodeFailed>>

clientVars == <<running, ws, reconnect_delay, pc, tstate, listenT, handler,
                pingTask, dpc, excPending, streak, opened, frameVars, probes>>

cmdCallVars == <<cpc, ccmd, cres, cmdLog, cmdFault, venueCloses, cposQty, cmdSent,
                 repeats, partials, closedDuring>>

cmdVars == <<cmdCallVars, posQty, filledOrders>>

execVars == <<config, today, last_reset, daily_trades, daily_loss, open_positions,
              epc, esig, eres, gate, existing, venueLog, fault, venuePositions,
              venueOrders, riskOrders, overlap, cmdVars>>

vars == <<clientVars, execVars>>

Transports == 1..MaxTransports
NoT == 0

\* ------------------------------------------------------------ the frames
FrameTypes == {"NEW_SIGNAL", "CLOSE_SIGNAL", "EDIT_SLTP", "UPDATE_LEVERAGE", "OTHER"}
\* a frame: the text "pong", text that is no JSON, or a JSON object with a
\* type and a payload that does or does not carry its mandatory fields; of a
\* NEW_SIGNAL frame with a complete payload, the symbol of its signal
Frames == {[kind |-> "pong", type |-> "OTHER", payloadOk |-> TRUE, symbol |-> "none"],
           [kind |-> "malformed", type |-> "OTHER", payloadOk |-> FALSE,
            symbol |-> "none"]}
          \cup ([kind : {"json"}, type : FrameTypes, payloadOk : BOOLEAN,
                 symbol : {"none"}]
                \ {[kind |-> "json", type |-> "NEW_SIGNAL", payloadOk |-> TRUE,
                     symbol |-> "none"]})
          \cup [kind : {"json"}, type : {"NEW_SIGNAL"}, payloadOk : {TRUE},
                symbol : {"BTC", "ETH"}]

NoFrame == [kind |-> "none", type |-> "OTHER", payloadOk |-> FALSE, symbol |-> "none"]

RecognizedTypes == {"NEW_SIGNAL", "CLOSE_SIGNAL", "EDIT_SLTP", "UPDATE_LEVERAGE"}

\* json.loads raises (lines 153-154), or the payload of a recognized type
\* lacks a mandatory field and the _handle_* method catches the KeyError
DecodeFails(f) ==
    \/ f.kind = "malformed"
    \/ f.kind = "json" /\ f.type \in RecognizedTypes /\ ~f.payloadOk

\* a router that hands every frame of an unknown type to on_signal
RouteUnknownToSignal(f) ==
    IF f.kind = "pong" THEN "none"
    ELSE IF f.kind = "malformed" THEN "none"
    ELSE IF f.type = "CLOSE_SIGNAL" THEN (IF f.payloadOk THEN "on_close" ELSE "none")
    ELSE IF f.type = "EDIT_SLTP" THEN (IF f.payloadOk THEN "on_edit_sltp" ELSE "none")
    ELSE IF f.type = "UPDATE_LEVERAGE" THEN (IF f.payloadOk THEN "on_leverage" ELSE "none")
    ELSE "on_signal"

\* a router that calls the callback with whatever fields the payload carries
RouteIgnoresPayload(f) ==
    IF f.kind = "pong" THEN "none"
    ELSE IF f.kind = "malformed" THEN "none"
    ELSE IF f.type = "NEW_SIGNAL" THEN "on_signal"
    ELSE IF f.type = "CLOSE_SIGNAL" THEN "on_close"
    ELSE IF f.type = "EDIT_SLTP" THEN "on_edit_sltp"
    ELSE IF f.type = "UPDATE_LEVERAGE" THEN "on_leverage"
    ELSE "none"

\* _handle_message and the four _handle_* methods: the callback a frame
\* reaches, "none" when it reaches none
Route(f) ==
    IF f.kind = "pong" THEN "none"
    ELSE IF f.kind = "malformed" THEN "none"
    ELSE IF f.type = "NEW_SIGNAL" THEN (IF f.payloadOk THEN "on_signal" ELSE "none")
    ELSE IF f.type = "CLOSE_SIGNAL" THEN (IF f.payloadOk THEN "on_close" ELSE "none")
    ELSE IF f.type = "EDIT_SLTP" THEN (IF f.payloadOk THEN "on_edit_sltp" ELSE "none")
    ELSE IF f.type = "UPDATE_LEVERAGE" THEN (IF f.payloadOk THEN "on_leverage" ELSE "none")
    ELSE "none"

\* ------------------------------------------------------------ SignalClient
\* SignalClient.__init__
ClientInit ==
    /\ running = FALSE
    /\ ws = NoT
    /\ reconnect_delay = InitialDelay
    /\ pc = "not_started"
    /\ tstate = [t \in Transports |-> "new"]
    /\ listenT = NoT
    /\ handler = "none"
    /\ pingTask = "none"
    /\ probes = {}
    /\ dpc = "idle"
    /\ excPending = FALSE
    /\ streak = 0
    /\ opened = FALSE
    /\ inbox = <<>>
    /\ arrived = 0
    /\ dispatched = <<>>
    /\ inflight = {}
    /\ message = NoFrame
    /\ handlerOutcome = "none"
    /\ decodeFailed = FALSE

\* a retry loop that gives up after three failures in a row
LoopTopGivesUp(run) == IF run /\ streak < 3 THEN "connecting" ELSE "stopped"

\* `while self.running:` followed by the call of connect(), which suspends in
\* websockets.connect
LoopTop(run) == IF run THEN "connecting" ELSE "stopped"

\* start(): self.running = True and the first pass of the loop
StartCall ==
    /\ pc = "not_started"
    /\ running' = TRUE
    /\ pc' = LoopTop(TRUE)
    /\ opened' = FALSE
    /\ UNCHANGED <<ws, reconnect_delay, tstate, listenT, handler, pingTask, dpc,
                   excPending, streak,
                   frameVars, probes, execVars>>

\* connect(): websockets.connect returned a transport; on_connected is awaited
ConnectOpens ==
    /\ pc = "connecting"
    /\ \E t \in Transports :
        /\ tstate[t] = "new"
        /\ \A u \in Transports : u < t => tstate[u] # "new"
        /\ tstate' = [tstate EXCEPT ![t] = "open"]
        /\ ws' = t
    /\ opened' = TRUE
    /\ pc' = "on_connected"
    /\ UNCHANGED <<running, reconnect_delay, listenT, handler, pingTask, dpc,
                   excPending, streak,
                   frameVars, probes, execVars>>

\* connect() returned False: start() logs and sleeps reconnect_delay
ConnectFailed ==
    /\ pc' = "backoff_fail"
    /\ streak' = Min(streak + 1, MaxStreak)

\* connect(): websockets.connect raised
ConnectRaises ==
    /\ pc = "connecting"
    /\ ConnectFailed
    /\ UNCHANGED <<running, ws, reconnect_delay, tstate, listenT, handler, pingTask,
                   dpc, excPending, opened,
                   frameVars, probes, execVars>>

\* connect(): on_connected raised, caught by connect()'s except
OnConnectedRaises ==
    /\ pc = "on_connected"
    /\ ConnectFailed
    /\ UNCHANGED <<running, ws, reconnect_delay, tstate, listenT, handler, pingTask,
                   dpc, excPending, opened,
                   frameVars, probes, execVars>>

\* the ping task was created and has neither ended nor been cancelled
PingAlive == pingTask \in {"created", "active"}

\* connect(): on_connected returned; the delay is reset and connect() returns
\* True; start() creates the ping task and enters `async for ... in self.ws`,
\* which raises TypeError when self.ws is None
OnConnectedReturns ==
    /\ pc = "on_connected"
    /\ reconnect_delay' = InitialDelay
    /\ streak' = 0
    /\ IF ws = NoT
       THEN /\ pingTask' = "cancelled"
            /\ excPending' = TRUE
            /\ pc' = "on_disconnected"
            /\ UNCHANGED listenT
       ELSE /\ pingTask' = "created"
            /\ excPending' = FALSE
            /\ pc' = "listening"
            /\ listenT' = ws
    /\ UNCHANGED <<running, ws, tstate, handler, dpc, opened,
                   frameVars, probes, execVars>>

\* a read loop that takes the next frame while a callback is still running
CanReadWhileHandling == pc \in {"listening", "handling"}

\* `async for message in self.ws: await self._handle_message(message)`: the
\* next frame is taken only when the awaited _handle_message has returned
CanRead == pc = "listening"

\* the peer sends frame f, which the transport buffers
PeerSends(f) ==
    /\ pc \in {"listening", "handling"}
    /\ tstate[listenT] = "open"
    /\ arrived < MaxFrames
    /\ arrived' = arrived + 1
    /\ inbox' = Append(inbox, [n |-> arrived + 1, frame |-> f])
    /\ UNCHANGED <<running, ws, reconnect_delay, pc, tstate, listenT, handler,
                   pingTask, dpc, excPending, streak, opened, dispatched, inflight,
                   message, handlerOutcome, decodeFailed,
                   probes, execVars>>

\* the read loop takes the oldest buffered frame, f, and awaits
\* _handle_message(f), which awaits the callback f is routed to
FrameArrives(f) ==
    /\ CanRead
    /\ inbox # <<>>
    /\ f = Head(inbox).frame
    /\ inbox' = Tail(inbox)
    /\ dispatched' = Append(dispatched, Head(inbox).n)
    /\ message' = f
    /\ decodeFailed' = (decodeFailed \/ DecodeFails(f))
    /\ IF Route(f) = "none"
       THEN UNCHANGED <<pc, handler, inflight>>
       ELSE /\ pc' = "handling"
            /\ handler' = Route(f)
            /\ inflight' = inflight \cup {Head(inbox).n}
    /\ UNCHANGED <<running, ws, reconnect_delay, tstate, listenT, pingTask, dpc,
                   excPending, streak, opened, arrived, handlerOutcome,
                   probes, execVars>>

\* a _handle_* method that lets the error of its callback escape: it leaves
\* the read loop as any other exception does
HandlerEndsErrorEscapes(raised) ==
    /\ pc = "handling"
    /\ \E n \in inflight : inflight' = inflight \ {n}
    /\ handler' = "none"
    /\ handlerOutcome' = IF raised THEN "raised" ELSE "returned"
    /\ IF raised
       THEN /\ pc' = "on_disconnected"
            /\ excPending' = TRUE
            /\ pingTask' = IF PingAlive THEN "cancelled" ELSE pingTask
       ELSE /\ pc' = "listening"
            /\ UNCHANGED <<excPending, pingTask>>
    /\ UNCHANGED <<running, ws, reconnect_delay, tstate, listenT, dpc, streak,
                   opened, inbox, arrived, dispatched, message, decodeFailed,
                   probes, execVars>>

\* the awaited callback returned, or raised and the _handle_* method caught
\* and logged the error: _handle_message returns to the read loop
HandlerEnds(raised) ==
    /\ pc = "handling"
    /\ \E n \in inflight : inflight' = inflight \ {n}
    /\ pc' = "listening"
    /\ handler' = "none"
    /\ handlerOutcome' = IF raised THEN "raised" ELSE "returned"
    /\ UNCHANGED <<running, ws, reconnect_delay, tstate, listenT, pingTask, dpc,
                   excPending, streak, opened, inbox, arrived, dispatched, message,
                   decodeFailed,
                   probes, execVars>>

\* a start() whose finally does not cancel the ping task
ReadEndsKeepsPing ==
    /\ pc = "listening"
    /\ tstate[listenT] = "closed"
    /\ UNCHANGED pingTask
    /\ excPending' = FALSE
    /\ pc' = "on_disconnected"
    /\ inbox' = <<>>
    /\ arrived' = 0
    /\ dispatched' = <<>>
    /\ message' = NoFrame
    /\ handlerOutcome' = "none"
    /\ decodeFailed' = FALSE
    /\ probes' = {}
    /\ UNCHANGED <<running, ws, reconnect_delay, tstate, listenT, handler, dpc,
                   streak, opened, inflight,
                   execVars>>

\* the iteration ends on a closed transport (normally or by ConnectionClosed);
\* finally: ping_task.cancel() and on_disconnected is awaited; what the
\* connection had buffered and the history of its frames and probes go with it
ReadEnds ==
    /\ pc = "listening"
    /\ tstate[listenT] = "closed"
    /\ pingTask' = IF PingAlive THEN "cancelled" ELSE pingTask
    /\ excPending' = FALSE
    /\ pc' = "on_disconnected"
    /\ inbox' = <<>>
    /\ arrived' = 0
    /\ dispatched' = <<>>
    /\ message' = NoFrame
    /\ handlerOutcome' = "none"
    /\ decodeFailed' = FALSE
    /\ probes' = {}
    /\ UNCHANGED <<running, ws, reconnect_delay, tstate, listenT, handler, dpc,
                   streak, opened, inflight,
                   execVars>>

\* on_disconnected returned: a pending exception reaches `except Exception`,
\* otherwise `if self.running` sleeps before the next pass
OnDisconnectedReturns ==
    /\ pc = "on_disconnected"
    /\ pc' = IF excPending THEN "error_sleep"
             ELSE IF running THEN "reconnect_sleep"
             ELSE LoopTop(running)
    /\ excPending' = FALSE
    /\ UNCHANGED <<running, ws, reconnect_delay, tstate, listenT, handler, pingTask,
                   dpc, streak, opened,
                   frameVars, probes, execVars>>

\* on_disconnected raised inside finally: `except Exception` sleeps
OnDisconnectedRaises ==
    /\ pc = "on_disconnected"
    /\ pc' = "error_sleep"
    /\ excPending' = FALSE
    /\ UNCHANGED <<running, ws, reconnect_delay, tstate, listenT, handler, pingTask,
                   dpc, streak, opened,
                   frameVars, probes, execVars>>

\* a backoff that doubles without the ceiling
BackoffEndsNoCeiling ==
    /\ pc = "backoff_fail"
    /\ reconnect_delay' = reconnect_delay * BackoffFactor
    /\ pc' = LoopTop(running)
    /\ opened' = FALSE
    /\ UNCHANGED <<running, ws, tstate, listenT, handler, pingTask, dpc, excPending,
                   streak,
                   frameVars, probes, execVars>>

\* the sleep after a failed connect ended: the delay doubles up to the ceiling
BackoffEnds ==
    /\ pc = "backoff_fail"
    /\ reconnect_delay' = Min(reconnect_delay * BackoffFactor, max_reconnect_delay)
    /\ pc' = LoopTop(running)
    /\ opened' = FALSE
    /\ UNCHANGED <<running, ws, tstate, listenT, handler, pingTask, dpc, excPending,
                   streak,
                   frameVars, probes, execVars>>

\* the sleep before a reconnect, or the one of `except Exception`, ended
SleepEnds ==
    /\ pc \in {"reconnect_sleep", "error_sleep"}
    /\ pc' = LoopTop(running)
    /\ opened' = FALSE
    /\ UNCHANGED <<running, ws, reconnect_delay, tstate, listenT, handler, pingTask,
                   dpc, excPending, streak,
                   frameVars, probes, execVars>>

\* the ping task runs for the first time: `while self.running and self.ws`
\* lets it go to sleep, or ends it
PingStarts ==
    /\ pingTask = "created"
    /\ pingTask' = IF running /\ ws # NoT THEN "active" ELSE "ended"
    /\ UNCHANGED <<running, ws, reconnect_delay, pc, tstate, listenT, handler, dpc,
                   excPending, streak, opened, frameVars, probes, execVars>>

\* self.ws.send("ping") goes out on an open transport and raises on a closed
\* one
PingSent == ws # NoT /\ tstate[ws] = "open"

\* _ping_loop wakes from its sleep: with self.ws set it sends "ping", and ends
\* when the send raises; then it goes round while self.running and self.ws
PingWakes ==
    /\ pingTask = "active"
    /\ probes' = IF PingSent
                 THEN probes \cup {[transport |-> ws,
                                    listened |-> pc \in {"listening", "handling"}
                                                   /\ listenT = ws]}
                 ELSE probes
    /\ pingTask' = IF PingSent /\ running THEN "active" ELSE "ended"
    /\ UNCHANGED <<running, ws, reconnect_delay, pc, tstate, listenT, handler, dpc,
                   excPending, streak, opened, frameVars, execVars>>

\* the peer closes the transport, or the transport fails
PeerCloses ==
    /\ \E t \in Transports :
        /\ tstate[t] = "open"
        /\ tstate' = [tstate EXCEPT ![t] = "closed"]
    /\ UNCHANGED <<running, ws, reconnect_delay, pc, listenT, handler, pingTask, dpc,
                   excPending, streak, opened,
                   frameVars, probes, execVars>>

\* disconnect(): self.running = False, and self.ws.close() is awaited if
\* self.ws is set
Disconnect ==
    /\ dpc = "idle"
    /\ pc # "not_started"
    /\ running' = FALSE
    /\ IF ws # NoT
       THEN /\ tstate' = [tstate EXCEPT ![ws] = "closed"]
            /\ dpc' = "closing"
       ELSE /\ dpc' = "returned"
            /\ UNCHANGED tstate
    /\ UNCHANGED <<ws, reconnect_delay, pc, listenT, handler, pingTask, excPending,
                   streak, opened,
                   frameVars, probes, execVars>>

\* disconnect(): close() returned; self.ws = None and disconnect() returns
DisconnectReturns ==
    /\ dpc = "closing"
    /\ ws' = NoT
    /\ dpc' = "returned"
    /\ UNCHANGED <<running, reconnect_delay, pc, tstate, listenT, handler, pingTask,
                   excPending, streak, opened,
                   frameVars, probes, execVars>>

\* the steps the event loop is bound to run: every await of the client ends
ClientStep ==
    \/ StartCall
    \/ ConnectOpens
    \/ ConnectRaises
    \/ OnConnectedRaises
    \/ OnConnectedReturns
    \/ \E f \in Frames : FrameArrives(f)
    \/ \E raised \in BOOLEAN : HandlerEnds(raised)
    \/ ReadEnds
    \/ OnDisconnectedReturns
    \/ OnDisconnectedRaises
    \/ BackoffEnds
    \/ SleepEnds
    \/ PingStarts
    \/ PingWakes
    \/ DisconnectReturns

\* what the peer and the caller may do at any time
ClientEnv ==
    \/ \E f \in Frames : PeerSends(f)
    \/ PeerCloses
    \/ Disconnect

\* ----------------------------------------------------------- the signals
Symbols == {"BTC", "ETH"}
SignalIds == {"a", "b", "c", "d"}
NoSignal == [signal_id |-> "none"]
\* entry_price, mark_price, order_id absent (None)
None == 0
\* a key the wire payload does not have
Absent == -1

\* data.get("leverage", 1)
WireLeverage(wire) == IF wire = Absent THEN 1 ELSE wire

\* Signal.from_dict of a payload: lev is the payload's leverage, or Absent
Sig(id, sym, st, ot, price, sltp, lev) ==
    [signal_id |-> id, symbol |-> sym, signal_type |-> st, order_type |-> ot,
     has_entry_price |-> price # None, entry_price |-> price, has_sltp |-> sltp,
     wire_leverage |-> lev, leverage |-> WireLeverage(lev)]

\* the Signal values the broadcaster sends: market and limit orders, with and
\* without stop-loss/take-profit, two signals of one symbol, one signal_id
\* used for two symbols, a LIMIT signal without entry_price, a payload without
\* leverage, and leverages below and above the configured maximum
Signals ==
    { Sig("a", "BTC", "LONG", "MARKET", None, TRUE, 10),
      Sig("b", "BTC", "SHORT", "LIMIT", 48, FALSE, 50),
      Sig("c", "ETH", "LONG", "LIMIT", 100, TRUE, Absent),
      Sig("a", "ETH", "SHORT", "MARKET", None, FALSE, 50),
      Sig("d", "ETH", "LONG", "LIMIT", None, FALSE, 5) }

\* ------------------------------------------------------------- the assets
\* quantities are counted in millionths of a unit
Micro == 1000000
Pow10(n) == IF n = 0 THEN 1
            ELSE IF n = 1 THEN 10
            ELSE IF n = 2 THEN 100
            ELSE IF n = 3 THEN 1000
            ELSE IF n = 4 THEN 10000
            ELSE IF n = 5 THEN 100000
            ELSE Micro

\* what assets.get returns: mark_price, quantity_step (in millionths) and
\* step_repr, the text Python gives for str(float(quantity_step)):
\* '1e-06' for a step of 0.000001, '0.001' for a step of 0.001
Asset(sym) ==
    IF sym = "BTC"
    THEN [mark_price |-> 50, quantity_step |-> 1,
          step_repr |-> <<"1", "e", "-", "0", "6">>]
    ELSE [mark_price |-> 100, quantity_step |-> 1000,
          step_repr |-> <<"0", ".", "0", "0", "1">>]

\* round(x) of Python 3 for x = num / den: the nearest integer, ties to even
Round(num, den) ==
    LET q == num \div den
        r == num % den
    IN IF 2 * r < den THEN q
       ELSE IF 2 * r > den THEN q + 1
       ELSE IF q % 2 = 0 THEN q ELSE q + 1

\* text.split('.')[-1]: what follows the last '.', the whole text without one
LastPart(text) ==
    LET dots == {i \in 1..Len(text) : text[i] = "."} IN
    IF dots = {} THEN text
    ELSE LET last == CHOOSE i \in dots : \A j \in dots : j <= i
         IN SubSeq(text, last + 1, Len(text))

\* text.rstrip('0')
RECURSIVE RStripZeros(_)
RStripZeros(text) ==
    IF text # <<>> /\ text[Len(text)] = "0"
    THEN RStripZeros(SubSeq(text, 1, Len(text) - 1))
    ELSE text

\* line 157: len(str(float(asset.quantity_step)).split('.')[-1].rstrip('0'))
Precision(step_repr) == Len(RStripZeros(LastPart(step_repr)))

\* lines 148-153: (trade_amount * leverage) / entry_price, rounded to the
\* quantity step when the asset has one (the result in millionths)
Quantity(trade_amount, leverage, entry_price, qty_step) ==
    IF qty_step # 0
    THEN Round(trade_amount * leverage * Micro, entry_price * qty_step) * qty_step
    ELSE (trade_amount * leverage * Micro) \div entry_price

\* lines 156-160: quantity_str, as the number it denotes (in millionths):
\* f"{quantity:.{precision}f}" for a step below 1, str(int(quantity)) otherwise
QuantityStr(quantity, qty_step, step_repr) ==
    IF qty_step # 0 /\ qty_step < Micro
    THEN LET unit == Pow10(6 - Min(Precision(step_repr), 6))
         IN Round(quantity, unit) * unit
    ELSE (quantity \div Micro) * Micro

\* --------------------------------------------------------- the commands
\* the callers of close_position, update_sl_tp and update_leverage: one
\* task, which makes its calls one after the other
Cmds == {1}

NoCommand == [kind |-> "none"]

\* a percentage default that keeps the missing key as it is
WirePercentageKept(wire) == wire

\* data.get("percentage", 100.0)
WirePercentage(wire) == IF wire = Absent THEN 100 ELSE wire

\* CloseCommand, EditSLTPCommand and LeverageCommand as the client builds them
\* from a payload: pct is the payload's percentage (Absent without the key,
\* None for null), sl and tp its stop_loss and take_profit (None without)
Cmd(kind, id, sym, pct, sl, tp) ==
    [kind |-> kind, signal_id |-> id, symbol |-> sym, wire_percentage |-> pct,
     percentage |-> WirePercentage(pct), stop_loss |-> sl, take_profit |-> tp]

\* the commands the broadcaster sends: full and partial closes, a close
\* without percentage, a close whose percentage is null, edits of the
\* stop-loss alone and of the take-profit alone, and a leverage update
Commands ==
    { Cmd("close", "a", "BTC", 100, None, None),
      Cmd("close", "a", "BTC", 50, None, None),
      Cmd("close", "c", "ETH", Absent, None, None),
      Cmd("close", "a", "ETH", None, None, None),
      Cmd("edit", "a", "BTC", None, 45, None),
      Cmd("edit", "c", "ETH", None, None, 110),
      Cmd("leverage", "b", "BTC", None, None, None) }

\* the arguments of a close_partial or set_risk_order call: the quantity,
\* stoploss_price and takeprofit_price, each null or the number its text
\* denotes
Null == [null |-> TRUE, value |-> None]
Arg(x) == [null |-> FALSE, value |-> x]
NoArgs == [quantity |-> Null, stoploss_price |-> Null, takeprofit_price |-> Null]

\* ----------------------------------------------------------- TradeExecutor
\* the execute_signal calls: two tasks call the entry point once each, which
\* is what it takes for two calls to be in flight together
Calls == {1, 2}

\* TradingConfig and RiskConfig with the defaults of config.py (5 USDT a
\* trade, leverage up to 25, no daily-loss limit, no minimum balance), the
\* two limits out of reach
DefaultConfig ==
    [auto_execute |-> TRUE, enabled |-> TRUE, max_daily_trades |-> MaxLimit,
     max_open_positions |-> MaxLimit, stop_on_daily_loss |-> 0, min_balance |-> 0,
     trade_amount_usdt |-> 5, max_leverage |-> 25]

\* the configurations: the defaults, each switch turned off, trading turned
\* off with both limits at 0, and every pair of limits with a daily-loss
\* limit, a minimum balance, 10 USDT a trade and leverage up to 10
Configs ==
    {DefaultConfig,
     [DefaultConfig EXCEPT !.auto_execute = FALSE],
     [DefaultConfig EXCEPT !.enabled = FALSE],
     [DefaultConfig EXCEPT !.enabled = FALSE, !.max_daily_trades = 0,
                           !.max_open_positions = 0]}
    \cup [auto_execute : {TRUE}, enabled : {TRUE},
          max_daily_trades : 1..MaxLimit, max_open_positions : 1..MaxLimit,
          stop_on_daily_loss : {1}, min_balance : {1},
          trade_amount_usdt : {10}, max_leverage : {10}]

\* TradeResult: success, message (the text and what it is about), entry_price
\* and quantity
NoResult == [success |-> FALSE, text |-> "none", detail |-> "none",
             entry_price |-> None, quantity |-> None]
Failure(text, detail) == [success |-> FALSE, text |-> text, detail |-> detail,
                          entry_price |-> None, quantity |-> None]

Success(text, detail) == [success |-> TRUE, text |-> text, detail |-> detail,
                          entry_price |-> None, quantity |-> None]

\* no command call was made yet
CmdInit ==
    /\ cpc = [k \in Cmds |-> "idle"]
    /\ ccmd = [k \in Cmds |-> NoCommand]
    /\ cres = [k \in Cmds |-> NoResult]
    /\ cmdLog = [k \in Cmds |-> <<>>]
    /\ cmdFault = [k \in Cmds |-> "none"]
    /\ venueCloses = {}
    /\ cposQty = [k \in Cmds |-> None]
    /\ cmdSent = [k \in Cmds |-> NoArgs]
    /\ repeats = [k \in Cmds |-> 0]
    /\ partials = 0
    /\ closedDuring = [k \in Cmds |-> {}]
    /\ posQty = [sym \in Symbols |-> 0]
    /\ filledOrders = {}

\* a sizing that takes the venue's mark price whatever the order type
EntryPriceAlwaysMark(c) == Asset(esig[c].symbol).mark_price

\* line 142: the price the quantity is computed from
EntryPrice(c) ==
    IF esig[c].order_type = "LIMIT" THEN esig[c].entry_price
    ELSE Asset(esig[c].symbol).mark_price

\* a sizing that takes the leverage of the signal as it is
LeverageOfSignal(c) == esig[c].leverage

\* line 145: min(signal.leverage, self.config.trading.max_leverage)
Leverage(c) == Min(esig[c].leverage, config.max_leverage)

\* the local `quantity` of the call after the rounding
CallQuantity(c) ==
    Quantity(config.trade_amount_usdt, Leverage(c), EntryPrice(c),
             Asset(esig[c].symbol).quantity_step)

\* the order the call submits: create_market_order(symbol, side, quantity,
\* leverage) or create_limit_order(symbol, side, quantity, price, leverage)
Order(c) ==
    [call |-> c, symbol |-> esig[c].symbol, kind |-> esig[c].order_type,
     side |-> IF esig[c].signal_type = "LONG" THEN "LONG" ELSE "SHORT",
     quantity |-> QuantityStr(CallQuantity(c), Asset(esig[c].symbol).quantity_step,
                              Asset(esig[c].symbol).step_repr),
     price |-> IF esig[c].order_type = "MARKET" THEN None ELSE esig[c].entry_price,
     leverage |-> Leverage(c)]

OrderPlaced(c) ==
    [success |-> TRUE, text |-> "Order placed", detail |-> esig[c].symbol,
     entry_price |-> EntryPrice(c), quantity |-> CallQuantity(c)]

\* TradeExecutor.__init__, on an account that holds no position yet
ExecInit ==
    /\ config \in Configs
    /\ today = 0
    /\ last_reset = 0
    /\ daily_trades = 0
    /\ daily_loss = 0
    /\ open_positions = [i \in SignalIds |-> NoSignal]
    /\ epc = [c \in Calls |-> "idle"]
    /\ esig = [c \in Calls |-> NoSignal]
    /\ eres = [c \in Calls |-> NoResult]
    /\ gate = [c \in Calls |-> "unset"]
    /\ existing = [c \in Calls |-> "unset"]
    /\ venueLog = [c \in Calls |-> <<>>]
    /\ fault = [c \in Calls |-> "none"]
    /\ venuePositions = {}
    /\ venueOrders = {}
    /\ riskOrders = {}
    /\ overlap = {}
    /\ CmdInit

\* the executor as constructed with the default configuration, never called
ExecUnused ==
    /\ config = DefaultConfig
    /\ today = 0
    /\ last_reset = 0
    /\ daily_trades = 0
    /\ daily_loss = 0
    /\ open_positions = [i \in SignalIds |-> NoSignal]
    /\ epc = [c \in Calls |-> "idle"]
    /\ esig = [c \in Calls |-> NoSignal]
    /\ eres = [c \in Calls |-> NoResult]
    /\ gate = [c \in Calls |-> "unset"]
    /\ existing = [c \in Calls |-> "unset"]
    /\ venueLog = [c \in Calls |-> <<>>]
    /\ fault = [c \in Calls |-> "none"]
    /\ venuePositions = {}
    /\ venueOrders = {}
    /\ riskOrders = {}
    /\ overlap = {}
    /\ CmdInit

InFlight == {c \in Calls : epc[c] \notin {"idle", "done"}}
Placed(c) == \E o \in venueOrders : o.call = c
Tracked == {i \in SignalIds : open_positions[i] # NoSignal}

\* a risk evaluation that carries the trade count over midnight
KeepTrades == daily_trades

\* a reset that books a loss of 1 USDT on every evaluation
ResetLossBooksLoss == IF today # last_reset THEN 0 ELSE daily_loss + 1

\* _reset_daily_counters: the counters after the lazy reset
ResetTrades == IF today # last_reset THEN 0 ELSE daily_trades
ResetLoss == IF today # last_reset THEN 0 ELSE daily_loss

\* an executor that trades whatever auto_execute says
AutoExecuteNeverOff == FALSE

\* line 96: `if not self.config.trading.auto_execute`
AutoExecuteOff == ~config.auto_execute

\* a risk gate that forgets the daily trade limit
RiskChecksNoTradeLimit(trades, loss) ==
    IF ~config.enabled THEN "Trading is disabled in config"
    ELSE IF Cardinality(Tracked) >= config.max_open_positions
         THEN "Max open positions reached"
    ELSE IF config.stop_on_daily_loss > 0 /\ loss >= config.stop_on_daily_loss
         THEN "Daily loss limit reached"
    ELSE "OK"

\* a risk gate that looks at the open positions before the daily trades
RiskChecksOpenFirst(trades, loss) ==
    IF ~config.enabled THEN "Trading is disabled in config"
    ELSE IF Cardinality(Tracked) >= config.max_open_positions
         THEN "Max open positions reached"
    ELSE IF trades >= config.max_daily_trades THEN "Daily trade limit reached"
    ELSE IF config.stop_on_daily_loss > 0 /\ loss >= config.stop_on_daily_loss
         THEN "Daily loss limit reached"
    ELSE "OK"

\* _check_risk_limits up to its await: the first failing check, or "OK"
RiskChecks(trades, loss) ==
    IF ~config.enabled THEN "Trading is disabled in config"
    ELSE IF trades >= config.max_daily_trades THEN "Daily trade limit reached"
    ELSE IF Cardinality(Tracked) >= config.max_open_positions
         THEN "Max open positions reached"
    ELSE IF config.stop_on_daily_loss > 0 /\ loss >= config.stop_on_daily_loss
         THEN "Daily loss limit reached"
    ELSE "OK"

\* the call returns result r
Return(c, r) ==
    /\ epc' = [epc EXCEPT ![c] = "done"]
    /\ eres' = [eres EXCEPT ![c] = r]
    /\ UNCHANGED venueLog

\* the Venue Gateway method a call is suspended in at each await
VenueCall(c, label) ==
    CASE label = "balance" -> "get_futures_balance"
      [] label = "list_open" -> "list_open"
      [] label = "asset" -> "assets.get"
      [] label = "order" -> IF esig[c].order_type = "MARKET"
                            THEN "create_market_order" ELSE "create_limit_order"
      [] label = "requery" -> "list_open"
      [] label = "set_risk" -> "set_risk_order"

\* the call invokes the Venue Gateway and suspends until the answer
Await(c, label) ==
    /\ epc' = [epc EXCEPT ![c] = label]
    /\ venueLog' = [venueLog EXCEPT ![c] = Append(@, VenueCall(c, label))]
    /\ UNCHANGED eres

\* the Venue Gateway call the call was suspended in raised
Faulted(c) == fault' = [fault EXCEPT ![c] = VenueCall(c, epc[c])]

\* a sizing that divides by whatever the signal carries
PriceMissingIgnored(c) == FALSE

\* line 148 raises TypeError: the entry_price of line 142 is None for a LIMIT
\* signal without entry_price
PriceMissing(c) == esig[c].order_type = "LIMIT" /\ ~esig[c].has_entry_price

\* an executor without the `except Exception`: the error leaves execute_signal
ExecutionErrorEscapes(c, what) ==
    /\ epc' = [epc EXCEPT ![c] = "raised"]
    /\ UNCHANGED <<eres, venueLog>>

\* `except Exception as e` of execute_signal
ExecutionError(c, what) == Return(c, Failure("Execution error", what))

\* a success path that tracks the position but forgets to count the trade
TrackAndReturnNoCount(c) ==
    /\ open_positions' = [open_positions EXCEPT ![esig[c].signal_id] = esig[c]]
    /\ daily_trades' = daily_trades
    /\ Return(c, OrderPlaced(c))

\* lines 205-219: track the position, count the trade, return success
TrackAndReturn(c) ==
    /\ open_positions' = [open_positions EXCEPT ![esig[c].signal_id] = esig[c]]
    /\ daily_trades' = daily_trades + 1
    /\ Return(c, OrderPlaced(c))

\* execute_signal(s) is called (the calls are numbered as they start): the
\* auto-execute check, then _check_risk_limits up to the await of the balance
ExecStart(c, s) ==
    /\ epc[c] = "idle"
    /\ \A d \in Calls : d < c => epc[d] # "idle"
    /\ esig' = [esig EXCEPT ![c] = s]
    /\ overlap' = overlap \cup {{c, d} : d \in InFlight}
    /\ IF AutoExecuteOff
       THEN /\ Return(c, Failure("Auto-execute disabled", "none"))
            /\ UNCHANGED <<last_reset, daily_trades, daily_loss, gate>>
       ELSE /\ last_reset' = today
            /\ daily_loss' = ResetLoss
            /\ daily_trades' = ResetTrades
            /\ LET reason == RiskChecks(ResetTrades, ResetLoss) IN
               IF reason # "OK"
               THEN /\ gate' = [gate EXCEPT ![c] = reason]
                    /\ Return(c, Failure("Risk limit", reason))
               ELSE /\ UNCHANGED gate
                    /\ Await(c, "balance")
    /\ UNCHANGED <<config, today, open_positions, existing, fault, venuePositions,
                   venueOrders, riskOrders, clientVars, cmdVars>>

\* _check_risk_limits: get_futures_balance returned balance b, or raised
ExecBalance(c, ok, b) ==
    /\ epc[c] = "balance"
    /\ LET reason == IF ~ok THEN "Failed to check balance"
                     ELSE IF b < config.min_balance THEN "Balance too low"
                     ELSE "OK" IN
       /\ gate' = [gate EXCEPT ![c] = reason]
       /\ IF reason # "OK"
          THEN Return(c, Failure("Risk limit", reason))
          ELSE Await(c, "list_open")
    /\ IF ok THEN UNCHANGED fault ELSE Faulted(c)
    /\ UNCHANGED <<config, today, last_reset, daily_trades, daily_loss,
                   open_positions, esig, existing, venuePositions, venueOrders,
                   riskOrders, overlap, clientVars, cmdVars>>

\* a collision check that logs the existing position and goes on
ExecListOpenNoCheck(c, ok) ==
    /\ epc[c] = "list_open"
    /\ IF ~ok
       THEN /\ ExecutionError(c, "list_open")
            /\ Faulted(c)
            /\ UNCHANGED existing
       ELSE /\ existing' = [existing EXCEPT ![c] =
                    IF esig[c].symbol \in venuePositions THEN "yes" ELSE "no"]
            /\ Await(c, "asset")
            /\ UNCHANGED fault
    /\ UNCHANGED <<config, today, last_reset, daily_trades, daily_loss,
                   open_positions, esig, gate, venuePositions, venueOrders,
                   riskOrders, overlap, clientVars, cmdVars>>

\* positions.list_open returned (or raised): the collision check
ExecListOpen(c, ok) ==
    /\ epc[c] = "list_open"
    /\ IF ~ok
       THEN /\ ExecutionError(c, "list_open")
            /\ Faulted(c)
            /\ UNCHANGED existing
       ELSE /\ existing' = [existing EXCEPT ![c] =
                    IF esig[c].symbol \in venuePositions THEN "yes" ELSE "no"]
            /\ IF esig[c].symbol \in venuePositions
               THEN Return(c, Failure("Position already exists", esig[c].symbol))
               ELSE Await(c, "asset")
            /\ UNCHANGED fault
    /\ UNCHANGED <<config, today, last_reset, daily_trades, daily_loss,
                   open_positions, esig, gate, venuePositions, venueOrders,
                   riskOrders, overlap, clientVars, cmdVars>>

\* assets.get returned the asset, None, or raised; then the sizing, which
\* raises on a LIMIT signal whose entry_price is None
ExecAsset(c, outcome) ==
    /\ epc[c] = "asset"
    /\ IF outcome = "raised"
       THEN ExecutionError(c, "assets.get") /\ Faulted(c)
       ELSE /\ UNCHANGED fault
            /\ IF outcome = "none"
               THEN Return(c, Failure("Asset not found", esig[c].symbol))
               ELSE IF PriceMissing(c)
                    THEN ExecutionError(c, "sizing")
               ELSE Await(c, "order")
    /\ UNCHANGED <<config, today, last_reset, daily_trades, daily_loss,
                   open_positions, esig, gate, existing, venuePositions,
                   venueOrders, riskOrders, overlap, clientVars, cmdVars>>

\* create_market_order / create_limit_order returned the order, or raised
ExecOrder(c, ok) ==
    /\ epc[c] = "order"
    /\ IF ~ok
       THEN /\ ExecutionError(c, VenueCall(c, "order"))
            /\ Faulted(c)
            /\ UNCHANGED <<venueOrders, open_positions, daily_trades>>
       ELSE /\ venueOrders' = venueOrders \cup {Order(c)}
            /\ UNCHANGED fault
            /\ IF esig[c].has_sltp
               THEN /\ Await(c, "requery")
                    /\ UNCHANGED <<open_positions, daily_trades>>
               ELSE TrackAndReturn(c)
    /\ UNCHANGED <<config, today, last_reset, daily_loss, esig, gate, existing,
                   venuePositions, riskOrders, overlap, clientVars, cmdVars>>

\* after asyncio.sleep(2): positions.list_open returned, or raised
ExecRequery(c, ok) ==
    /\ epc[c] = "requery"
    /\ IF ~ok
       THEN /\ ExecutionError(c, "list_open")
            /\ Faulted(c)
            /\ UNCHANGED <<open_positions, daily_trades>>
       ELSE /\ UNCHANGED fault
            /\ IF esig[c].symbol \in venuePositions
               THEN /\ Await(c, "set_risk")
                    /\ UNCHANGED <<open_positions, daily_trades>>
               ELSE TrackAndReturn(c)
    /\ UNCHANGED <<config, today, last_reset, daily_loss, esig, gate, existing,
                   venuePositions, venueOrders, riskOrders, overlap,
                   clientVars, cmdVars>>

\* positions.set_risk_order returned, or raised
ExecSetRisk(c, ok) ==
    /\ epc[c] = "set_risk"
    /\ IF ~ok
       THEN /\ ExecutionError(c, "set_risk_order")
            /\ Faulted(c)
            /\ UNCHANGED <<open_positions, daily_trades, riskOrders>>
       ELSE /\ riskOrders' = riskOrders \cup {c}
            /\ UNCHANGED fault
            /\ TrackAndReturn(c)
    /\ UNCHANGED <<config, today, last_reset, daily_loss, esig, gate, existing,
                   venuePositions, venueOrders, overlap, clientVars, cmdVars>>

\* the venue fills an accepted order: the position materializes
VenueFills ==
    /\ \E o \in venueOrders :
        /\ o.call \notin filledOrders
        /\ o.symbol \notin venuePositions
        /\ venuePositions' = venuePositions \cup {o.symbol}
        /\ posQty' = [posQty EXCEPT ![o.symbol] = o.quantity]
        /\ filledOrders' = filledOrders \cup {o.call}
    /\ UNCHANGED <<config, today, last_reset, daily_trades, daily_loss,
                   open_positions, epc, esig, eres, gate, existing, venueLog,
                   fault, venueOrders, riskOrders, overlap, clientVars, cmdCallVars>>

\* midnight passes
NewDay ==
    /\ today < MaxDay
    /\ today' = today + 1
    /\ UNCHANGED <<config, last_reset, daily_trades, daily_loss, open_positions,
                   epc, esig, eres, gate, existing, venueLog, fault,
                   venuePositions, venueOrders, riskOrders, overlap, clientVars, cmdVars>>

\* a call of execute_signal goes on from the await it is suspended at
ExecStep ==
    \/ \E c \in Calls, ok \in BOOLEAN, b \in 0..MaxBalance : ExecBalance(c, ok, b)
    \/ \E c \in Calls, ok \in BOOLEAN : ExecListOpen(c, ok)
    \/ \E c \in Calls, outcome \in {"raised", "none", "found"} : ExecAsset(c, outcome)
    \/ \E c \in Calls, ok \in BOOLEAN : ExecOrder(c, ok)
    \/ \E c \in Calls, ok \in BOOLEAN : ExecRequery(c, ok)
    \/ \E c \in Calls, ok \in BOOLEAN : ExecSetRisk(c, ok)

ExecNext ==
    \/ \E c \in Calls, s \in Signals : ExecStart(c, s)
    \/ ExecStep
    \/ VenueFills
    \/ NewDay

\* ------------------------------------------ close, edit and leverage calls
\* what no command call changes
cmdOutside == <<config, today, last_reset, daily_trades, daily_loss, epc, esig,
                eres, gate, existing, venueLog, fault, venueOrders, riskOrders,
                overlap, filledOrders, clientVars>>

\* the Venue Gateway method a command call is suspended in
CmdVenueCall(label) ==
    CASE label = "list_open" -> "list_open"
      [] label = "asset" -> "assets.get"
      [] label = "close" -> "close"
      [] label = "close_partial" -> "close_partial"
      [] label = "set_risk" -> "set_risk_order"

\* the command call returns result r
CmdReturn(k, r) ==
    /\ cpc' = [cpc EXCEPT ![k] = "done"]
    /\ cres' = [cres EXCEPT ![k] = r]
    /\ repeats' = [repeats EXCEPT ![k] = IF r.text = "No open position"
                                         THEN Min(@ + 1, MaxRepeats) ELSE 0]
    /\ closedDuring' = [closedDuring EXCEPT ![k] = InFlight]
    /\ UNCHANGED cmdLog

\* the command call invokes the Venue Gateway and suspends until the answer
CmdAwait(k, label) ==
    /\ cpc' = [cpc EXCEPT ![k] = label]
    /\ cmdLog' = [cmdLog EXCEPT ![k] = Append(@, CmdVenueCall(label))]
    /\ UNCHANGED <<cres, repeats, closedDuring>>

\* the text of the `except Exception` of each entry point
ErrorText(kind) ==
    CASE kind = "close" -> "Close error"
      [] kind = "edit" -> "Update error"
      [] kind = "leverage" -> "Leverage error"

\* entry points without their `except Exception`: the error leaves the call
CmdErrorEscapes(k, what) ==
    /\ cpc' = [cpc EXCEPT ![k] = "raised"]
    /\ UNCHANGED <<cres, cmdLog, repeats, closedDuring>>

\* `except Exception as e` of close_position, update_sl_tp, update_leverage
CmdError(k, what) == CmdReturn(k, Failure(ErrorText(ccmd[k].kind), what))

\* the Venue Gateway call the command call was suspended in raised
CmdFaulted(k) == cmdFault' = [cmdFault EXCEPT ![k] = CmdVenueCall(cpc[k])]

\* a partial close: a close whose percentage is a number below 100
IsPartial(cmd) == cmd.kind = "close" /\ cmd.percentage # None /\ cmd.percentage < 100

\* close_position, update_sl_tp or update_leverage is called with command
\* cmd, by a task whose previous call has returned: each of them first awaits
\* positions.list_open
CmdStart(k, cmd) ==
    /\ cpc[k] \in {"idle", "done"}
    /\ IsPartial(cmd) => partials < MaxPartials
    /\ ccmd' = [ccmd EXCEPT ![k] = cmd]
    /\ cpc' = [cpc EXCEPT ![k] = "list_open"]
    /\ cmdLog' = [cmdLog EXCEPT ![k] = <<CmdVenueCall("list_open")>>]
    /\ cres' = [cres EXCEPT ![k] = NoResult]
    /\ cmdFault' = [cmdFault EXCEPT ![k] = "none"]
    /\ cposQty' = [cposQty EXCEPT ![k] = None]
    /\ cmdSent' = [cmdSent EXCEPT ![k] = NoArgs]
    /\ repeats' = [repeats EXCEPT ![k] =
                     IF cmd = ccmd[k] /\ cres[k].text = "No open position" THEN @ ELSE 0]
    /\ closedDuring' = [closedDuring EXCEPT ![k] = {}]
    /\ UNCHANGED <<venueCloses, partials, open_positions, venuePositions, posQty,
                   cmdOutside>>

\* a lookup that finds a position whatever the venue holds
HasPositionAlways(k) == TRUE

\* `position = next((p for p in positions if p.symbol == ...), None)`
HasPosition(k) == ccmd[k].symbol \in venuePositions

\* an update_leverage that reports success
LeverageResultSuccess == Success("Leverage updated", "none")

\* lines 367-372: the result of update_leverage for an open position
LeverageResult == Failure("Leverage update not supported yet", "none")

\* a risk argument that is passed on as it is, absent or not
PriceArgNeverNull(x) == Arg(x)

\* `str(edit.stop_loss) if edit.stop_loss else None`
PriceArg(x) == IF x # None THEN Arg(x) ELSE Null

\* positions.list_open returned (or raised): without a position of the symbol
\* the call fails; close_position closes in full, or asks for the asset to
\* round the part to close; update_sl_tp sets the risk order; update_leverage
\* reports that it is not supported
CmdListed(k, ok) ==
    /\ cpc[k] = "list_open"
    /\ IF ~ok
       THEN CmdError(k, "list_open") /\ CmdFaulted(k) /\ UNCHANGED <<cposQty, cmdSent>>
       ELSE /\ UNCHANGED cmdFault
            /\ cposQty' = [cposQty EXCEPT ![k] = posQty[ccmd[k].symbol]]
            /\ IF ~HasPosition(k)
               THEN /\ CmdReturn(k, Failure("No open position", ccmd[k].symbol))
                    /\ UNCHANGED cmdSent
               ELSE IF ccmd[k].kind = "leverage"
                    THEN CmdReturn(k, LeverageResult) /\ UNCHANGED cmdSent
               ELSE IF ccmd[k].kind = "edit"
                    THEN /\ CmdAwait(k, "set_risk")
                         /\ cmdSent' = [cmdSent EXCEPT ![k] =
                               [quantity |-> Null,
                                stoploss_price |-> PriceArg(ccmd[k].stop_loss),
                                takeprofit_price |-> PriceArg(ccmd[k].take_profit)]]
               ELSE IF ccmd[k].percentage = None
                    THEN CmdError(k, "percentage") /\ UNCHANGED cmdSent
               ELSE IF ccmd[k].percentage >= 100
                    THEN CmdAwait(k, "close") /\ UNCHANGED cmdSent
               ELSE CmdAwait(k, "asset") /\ UNCHANGED cmdSent
    /\ UNCHANGED <<ccmd, venueCloses, partials, open_positions, venuePositions,
                   posQty, cmdOutside>>

\* line 257: float(position.quantity) * (close.percentage / 100.0), in
\* hundredths of a millionth
CloseQuantity(k) == cposQty[k] * ccmd[k].percentage

\* lines 261-271: close_qty_str, as the number it denotes (in millionths): the
\* part to close rounded to the quantity step and formatted as execute_signal
\* formats its quantity, or str(close_qty) without an asset or a step
CloseQuantityStr(k, found) ==
    LET asset == Asset(ccmd[k].symbol) IN
    IF found /\ asset.quantity_step # 0
    THEN QuantityStr(Round(CloseQuantity(k), 100 * asset.quantity_step)
                       * asset.quantity_step,
                     asset.quantity_step, asset.step_repr)
    ELSE CloseQuantity(k) \div 100

\* close_position, partial close: assets.get returned (an asset or None), or
\* raised; then positions.close_partial is awaited
CloseAsset(k, outcome) ==
    /\ cpc[k] = "asset"
    /\ IF outcome = "raised"
       THEN CmdError(k, "assets.get") /\ CmdFaulted(k) /\ UNCHANGED cmdSent
       ELSE /\ CmdAwait(k, "close_partial")
            /\ cmdSent' = [cmdSent EXCEPT ![k] =
                  [NoArgs EXCEPT !.quantity = Arg(CloseQuantityStr(k, outcome = "found"))]]
            /\ UNCHANGED cmdFault
    /\ UNCHANGED <<ccmd, venueCloses, cposQty, partials, open_positions,
                   venuePositions, posQty, cmdOutside>>

\* a close that counts as full whatever its percentage
FullyClosedAlways(k) == TRUE

\* line 281: close.percentage >= 100
FullyClosed(k) == ccmd[k].percentage >= 100

\* lines 281-289: the tracked entry of a full close is removed, and the call
\* returns its success
CloseDone(k) ==
    /\ open_positions' = IF FullyClosed(k)
                         THEN [open_positions EXCEPT ![ccmd[k].signal_id] = NoSignal]
                         ELSE open_positions
    /\ CmdReturn(k, Success("Position closed", ccmd[k].symbol))

\* close_position: positions.close returned (the venue closed the position),
\* or raised
CloseFull(k, ok) ==
    /\ cpc[k] = "close"
    /\ IF ~ok
       THEN /\ CmdError(k, "close") /\ CmdFaulted(k)
            /\ UNCHANGED <<venueCloses, venuePositions, posQty, open_positions>>
       ELSE /\ venueCloses' = venueCloses \cup {[cmd |-> k, kind |-> "close"]}
            /\ venuePositions' = venuePositions \ {ccmd[k].symbol}
            /\ posQty' = [posQty EXCEPT ![ccmd[k].symbol] = 0]
            /\ CloseDone(k)
            /\ UNCHANGED cmdFault
    /\ UNCHANGED <<ccmd, cposQty, cmdSent, partials, cmdOutside>>

\* close_position: positions.close_partial returned (the venue took the
\* quantity off the position), or raised
ClosePartial(k, ok) ==
    /\ cpc[k] = "close_partial"
    /\ IF ~ok
       THEN /\ CmdError(k, "close_partial") /\ CmdFaulted(k)
            /\ UNCHANGED <<venueCloses, partials, posQty, open_positions>>
       ELSE /\ cmdSent[k].quantity.value <= posQty[ccmd[k].symbol]
            /\ venueCloses' = venueCloses \cup {[cmd |-> k, kind |-> "close_partial"]}
            /\ partials' = partials + 1
            /\ posQty' = [posQty EXCEPT ![ccmd[k].symbol] = @ - cmdSent[k].quantity.value]
            /\ CloseDone(k)
            /\ UNCHANGED cmdFault
    /\ UNCHANGED <<ccmd, cposQty, cmdSent, venuePositions, cmdOutside>>

\* update_sl_tp: positions.set_risk_order returned, or raised
EditSetRisk(k, ok) ==
    /\ cpc[k] = "set_risk"
    /\ IF ~ok
       THEN CmdError(k, "set_risk_order") /\ CmdFaulted(k)
       ELSE CmdReturn(k, Success("SL/TP updated", ccmd[k].symbol)) /\ UNCHANGED cmdFault
    /\ UNCHANGED <<ccmd, venueCloses, cposQty, cmdSent, partials, open_positions,
                   venuePositions, posQty, cmdOutside>>

\* a command call goes on from the await it is suspended at
CmdStep ==
    \/ \E k \in Cmds, ok \in BOOLEAN : CmdListed(k, ok)
    \/ \E k \in Cmds, outcome \in {"raised", "none", "found"} : CloseAsset(k, outcome)
    \/ \E k \in Cmds, ok \in BOOLEAN : CloseFull(k, ok)
    \/ \E k \in Cmds, ok \in BOOLEAN : ClosePartial(k, ok)
    \/ \E k \in Cmds, ok \in BOOLEAN : EditSetRisk(k, ok)

CmdNext ==
    \/ \E k \in Cmds, cmd \in Commands : CmdStart(k, cmd)
    \/ CmdStep

\* ---------------------------------------------------------- specifications
\* the client alone, its callbacks opaque
Init == ClientInit /\ ExecUnused

Next == ClientStep \/ ClientEnv

Spec == Init /\ [][Next]_vars

FairSpec == Spec /\ WF_vars(ClientStep)

\* the executor alone, its entry point called by any number of tasks
ExecSpecInit == ClientInit /\ ExecInit

ExecSpec == ExecSpecInit /\ [][ExecNext]_vars

\* no entry point is in the middle of a call
NoCallRunning ==
    /\ \A c \in Calls : epc[c] \in {"idle", "done"}
    /\ \A k \in Cmds : cpc[k] \in {"idle", "done"}

\* the four entry points of the pipeline as the callbacks of the CLI call
\* them, under the default configuration: the read loop awaits each callback,
\* so a call starts when the one before it has returned
PipelineNext ==
    \/ NoCallRunning /\ \E c \in Calls, s \in Signals : ExecStart(c, s)
    \/ NoCallRunning /\ \E k \in Cmds, cmd \in Commands : CmdStart(k, cmd)
    \/ ExecStep
    \/ CmdStep
    \/ VenueFills
    \/ NewDay

PipelineSpec == Init /\ [][PipelineNext]_vars

\* the entry points called by tasks of their own, within one day: an
\* execute_signal call and a command call may be in flight together
ConcurrentNext ==
    \/ \E c \in Calls, s \in Signals : ExecStart(c, s)
    \/ ExecStep
    \/ CmdNext
    \/ VenueFills

ConcurrentSpec == Init /\ [][ConcurrentNext]_vars

\* a signal whose size is below half a quantity step: 5 USDT at leverage 1
\* and a limit price of 20000 is 0.00025, the step of ETH being 0.001
SmallSignal == Sig("c", "ETH", "SHORT", "LIMIT", 20000, FALSE, 1)

\* execute_signal called by tasks of their own, the small signal among the
\* signals
SizingNext ==
    \/ \E c \in Calls, s \in Signals \cup {SmallSignal} : ExecStart(c, s)
    \/ ExecStep
    \/ VenueFills

SizingSpec == Init /\ [][SizingNext]_vars

\* the configuration with a daily-loss limit, one trade a day and the
\* position limit out of reach
GatedConfigs ==
    {cfg \in Configs : /\ cfg.stop_on_daily_loss > 0
                       /\ cfg.max_daily_trades = 1
                       /\ cfg.max_open_positions = MaxLimit}

GatedInit == ClientInit /\ ExecInit /\ config \in GatedConfigs

\* the entry points called one after another under a configuration with
\* limits
GatedSpec == GatedInit /\ [][PipelineNext]_vars

\* ------------------------------------------------------ SignalClient claims
ReadLoopStates == {"listening", "handling"}

\* C6: once disconnect() has returned, the read loop of start() has exited, so
\* that no handler can be invoked any more (and none is in flight).
C6_StopReturnsAfterReadLoop ==
    dpc = "returned" => (pc \notin ReadLoopStates /\ handler = "none")

Stopped == pc = "stopped" /\ \A t \in Transports : tstate[t] # "open"

\* C7: a shutdown request made in any state of the client brings it to
\* Stopped (start() has returned and no transport is open): once shutdown was
\* requested, the client is Stopped whenever none of its own steps is pending,
\* so that it never comes to rest anywhere else.
C7_StopReachesStopped == (dpc # "idle" /\ ~ENABLED ClientStep) => Stopped

ConnectionLost ==
    \/ pc \in ReadLoopStates /\ tstate[listenT] = "closed"
    \/ pc \in {"on_disconnected", "reconnect_sleep", "error_sleep"}

\* C8: start() returns only after shutdown was requested, and while it was not
\* requested every lost connection and every failed connect attempt is
\* followed by another connect attempt.
C8_ReconnectsUntilStopped ==
    /\ [](pc = "stopped" => dpc # "idle")
    /\ ((dpc = "idle" /\ (ConnectionLost \/ pc = "backoff_fail"))
            ~> (pc = "connecting" \/ dpc # "idle"))

\* a connect attempt made after a lost connection and a failed attempt
C8_Witness ==
    /\ pc = "connecting"
    /\ dpc = "idle"
    /\ streak >= 1
    /\ \E t \in Transports : tstate[t] = "closed"

WaitSeq == <<5, 10, 20, 40, 80, 160, 300>>
ExpectedWait(k) == IF k <= Len(WaitSeq) THEN WaitSeq[k] ELSE WaitSeq[Len(WaitSeq)]

\* C9: the wait after the k-th failed connect attempt in a row is 5, 10, 20,
\* 40, 80, 160, 300, 300, ... seconds, and reconnect_delay is always between
\* 5 and 300.
C9_BackoffSequence ==
    /\ reconnect_delay >= WaitSeq[1]
    /\ reconnect_delay <= WaitSeq[Len(WaitSeq)]
    /\ pc = "backoff_fail" => reconnect_delay = ExpectedWait(streak)

\* the wait after the eighth failure in a row: the second one at the ceiling
C9_Witness ==
    /\ pc = "backoff_fail"
    /\ streak = 8
    /\ reconnect_delay = 300

\* C10: when the connect attempt has opened its transport, reconnect_delay is
\* 5 again once the attempt is over, whatever preceded it.
C10_DelayResetAfterOpen ==
    (opened /\ pc # "on_connected") => reconnect_delay = 5

FrameRead == dispatched' # dispatched /\ pc \in ReadLoopStates
HandlerStarts == ~(inflight' \subseteq inflight)

\* C11: on one connection the frames are read in the order they arrived, at
\* most one handler is in flight at any time, and a handler starts only when
\* no handler of an earlier frame is still running.
C11_HandlersInOrderOneAtATime ==
    /\ [](/\ Cardinality(inflight) <= 1
          /\ \A i \in 1..Len(dispatched) : dispatched[i] = i
          /\ \A n \in inflight : n = Len(dispatched))
    /\ [][HandlerStarts => inflight = {}]_vars

\* the handler of the second frame runs, the one of the first frame has ended
C11_Witness ==
    /\ dispatched = <<1, 2>>
    /\ inflight = {2}
    /\ handlerOutcome # "none"

\* the handler each type of frame is meant for
HandlerFor(type) ==
    CASE type = "NEW_SIGNAL" -> "on_signal"
      [] type = "CLOSE_SIGNAL" -> "on_close"
      [] type = "EDIT_SLTP" -> "on_edit_sltp"
      [] type = "UPDATE_LEVERAGE" -> "on_leverage"
      [] OTHER -> "no handler"

\* C12: a frame the loop reads invokes at most one handler, the one matching
\* its type (NEW_SIGNAL -> on_signal, CLOSE_SIGNAL -> on_close, EDIT_SLTP ->
\* on_edit_sltp, UPDATE_LEVERAGE -> on_leverage); a well-formed frame of one
\* of these types does invoke it; 'pong' and any other type invoke none.
C12_RoutedByType ==
    [][FrameRead =>
        /\ Cardinality(inflight' \ inflight) <= 1
        /\ HandlerStarts =>
                /\ message'.kind = "json"
                /\ handler' = HandlerFor(message'.type)
        /\ (message'.kind = "json" /\ message'.type \in RecognizedTypes
                /\ message'.payloadOk) => HandlerStarts
        /\ (message'.kind = "pong" \/ message'.type \notin RecognizedTypes)
                => (~HandlerStarts /\ handler' = handler)]_vars

\* an UPDATE_LEVERAGE frame being handled by on_leverage
C12_Witness ==
    /\ pc = "handling"
    /\ message.type = "UPDATE_LEVERAGE"
    /\ handler = "on_leverage"

\* C13: a frame that fails to decode (text that is no JSON, or a recognized
\* type without its mandatory fields) invokes no handler and leaves the
\* connection as it is: the loop keeps listening on the same transport, and
\* the frames that follow are dispatched.
C13_DecodeFailureSkipsFrame ==
    /\ [][(FrameRead /\ DecodeFails(message')) =>
            /\ ~HandlerStarts
            /\ pc' = "listening"
            /\ UNCHANGED <<handler, listenT, tstate, running, ws, excPending,
                           pingTask, arrived>>]_vars
    /\ [](decodeFailed => pc \in ReadLoopStates)

\* a frame reaches its handler after an earlier frame failed to decode
C13_Witness ==
    /\ decodeFailed
    /\ ~DecodeFails(message)
    /\ Len(dispatched) = 2
    /\ inflight = {2}

HandlerRaises == inflight' # inflight /\ inflight' \subseteq inflight /\ handlerOutcome' = "raised"

\* C14: when a handler raises, the connection is not terminated and no
\* reconnect is started: the loop is listening again on the same transport,
\* whose state the step leaves alone, and reads the frames that follow.
C14_HandlerErrorKeepsConnection ==
    [][HandlerRaises =>
        /\ pc' = "listening"
        /\ UNCHANGED <<listenT, tstate, running, ws, excPending, pingTask,
                       reconnect_delay, inbox, arrived, dispatched>>]_vars

\* a frame reaches its handler after the handler of the frame before it raised
C14_Witness ==
    /\ handlerOutcome = "raised"
    /\ Len(dispatched) = 2
    /\ inflight = {2}

\* ----------------------------------------------------- TradeExecutor claims
Returns(c) == epc[c] # "done" /\ epc'[c] = "done"
TrackedWith(c) == [open_positions EXCEPT ![esig'[c].signal_id] = esig'[c]]

\* C1: of two execute_signal calls for one symbol that are in flight together,
\* on a venue that held no position for it, at most one submits an entry order.
C1_OneEntryPerRacingSymbol ==
    \A c \in Calls, d \in Calls :
        (c # d /\ {c, d} \in overlap /\ esig[c].symbol = esig[d].symbol)
            => ~(Placed(c) /\ Placed(d))

\* C2: a call that has passed the risk gate and whose position query shows a
\* position for the signal's symbol returns the failure 'Position already
\* exists' at once, has submitted no order and submits none, and the step
\* leaves the tracking set and trades_today as they are.
C2_CollisionRejected ==
    /\ [](\A c \in Calls :
            existing[c] = "yes" =>
                /\ gate[c] = "OK"
                /\ epc[c] = "done"
                /\ eres[c] = Failure("Position already exists", esig[c].symbol)
                /\ ~Placed(c))
    /\ [][\A c \in Calls :
            (existing[c] # "yes" /\ existing'[c] = "yes") =>
                UNCHANGED <<open_positions, daily_trades, venueOrders>>]_vars

\* a call rejected by the collision check, after another call's order filled
C2_Witness ==
    \E c \in Calls :
        /\ existing[c] = "yes"
        /\ epc[c] = "done"
        /\ eres[c].text = "Position already exists"
        /\ \E d \in Calls : Placed(d) /\ esig[d].symbol = esig[c].symbol

GateFailed(c) == gate[c] \notin {"unset", "OK"}

\* the check that reason r names fails in the state after the gate was evaluated
CheckFails(c, r) ==
    \/ r = "Trading is disabled in config" /\ ~config.enabled
    \/ r = "Daily trade limit reached" /\ daily_trades' >= config.max_daily_trades
    \/ r = "Max open positions reached"
            /\ Cardinality(Tracked) >= config.max_open_positions
    \/ r = "Daily loss limit reached"
            /\ config.stop_on_daily_loss > 0
            /\ daily_loss' >= config.stop_on_daily_loss
    \/ r \in {"Balance too low", "Failed to check balance"} /\ epc[c] = "balance"

\* C3: a call whose risk gate fails returns the failure carrying the reason of
\* the failing check and never places an order; a call made while one of the
\* checks before the balance fails does fail the gate; and the step that fails
\* the gate leaves the tracking set alone and trades_today too, apart from
\* the lazy reset to 0 on a new day.
C3_GateFailureIsClean ==
    /\ [](\A c \in Calls :
            GateFailed(c) =>
                /\ epc[c] = "done"
                /\ eres[c] = Failure("Risk limit", gate[c])
                /\ ~Placed(c))
    /\ [][\A c \in Calls :
            /\ (~GateFailed(c) /\ GateFailed(c)') =>
                    /\ CheckFails(c, gate'[c])
                    /\ UNCHANGED <<open_positions, venueOrders>>
                    /\ daily_trades' = IF epc[c] = "idle" THEN ResetTrades
                                       ELSE daily_trades
            /\ (/\ epc[c] = "idle" /\ epc'[c] # "idle" /\ config.auto_execute
                /\ \/ ~config.enabled
                   \/ ResetTrades >= config.max_daily_trades
                   \/ Cardinality(Tracked) >= config.max_open_positions)
                    => GateFailed(c)']_vars

\* after a trade that reached the daily limit, a call stopped by that limit
C3_Witness ==
    \E c \in Calls, d \in Calls :
        /\ epc[c] = "done"
        /\ eres[c].success
        /\ epc[d] = "done"
        /\ gate[d] = "Daily trade limit reached"
        /\ eres[d] = Failure("Risk limit", "Daily trade limit reached")

\* C4: once a call's entry order was accepted, the call returns success, tracks
\* the signal and counts the trade, whatever happens in the attachment of the
\* stop-loss/take-profit.
C4_AttachmentIsBestEffort ==
    [][\A c \in Calls :
        (Returns(c) /\ Placed(c)') =>
            /\ eres'[c].success
            /\ open_positions' = TrackedWith(c)
            /\ daily_trades' = daily_trades + 1]_vars

\* C5 as stated: a call that returns success adds signal_id -> Signal to the
\* tracking set and adds one to trades_today in the step that returns, and a
\* call that returns failure leaves both unchanged.
C5_TrackedIffSuccess ==
    [][\A c \in Calls :
        Returns(c) =>
            IF eres'[c].success
            THEN /\ open_positions' = TrackedWith(c)
                 /\ daily_trades' = daily_trades + 1
            ELSE UNCHANGED <<open_positions, daily_trades>>]_vars

\* the lazy reset of a risk evaluation on a new day
LazyReset ==
    /\ today # last_reset
    /\ daily_trades' = 0
    /\ \E c \in Calls : epc[c] = "idle" /\ epc'[c] # "idle" /\ config.auto_execute

\* C5 as amended: a call that returns success adds signal_id -> Signal to the
\* tracking set and adds one to trades_today in the step that returns; a call
\* that returns failure leaves the tracking set unchanged and trades_today
\* too, apart from the lazy daily reset of its risk evaluation; and no other
\* step of execute_signal changes either.
C5_TrackedIffSuccessApartFromReset ==
    [][/\ \A c \in Calls :
            Returns(c) =>
                IF eres'[c].success
                THEN /\ open_positions' = TrackedWith(c)
                     /\ daily_trades' = daily_trades + 1
                ELSE /\ UNCHANGED open_positions
                     /\ daily_trades' = daily_trades \/ LazyReset
       /\ (epc' # epc /\ open_positions' # open_positions)
            => \E c \in Calls : Returns(c) /\ eres'[c].success
       /\ (epc' # epc /\ daily_trades' # daily_trades)
            => (\E c \in Calls : Returns(c) /\ eres'[c].success) \/ LazyReset]_vars

\* one call succeeded and is tracked, another failed after the daily reset
C5_Witness ==
    \E c \in Calls, d \in Calls :
        /\ epc[c] = "done" /\ eres[c].success
        /\ open_positions[esig[c].signal_id] = esig[c]
        /\ epc[d] = "done" /\ ~eres[d].success
        /\ last_reset = 1
        /\ daily_trades = 0

Starts(c) == epc[c] = "idle" /\ epc'[c] # "idle"

\* C15: with auto_execute disabled, execute_signal returns the failure
\* 'Auto-execute disabled' in the step that calls it, having made no Venue
\* Gateway call (the balance query included), and the tracking set,
\* trades_today, loss_today and last_reset_date are as before the call, also
\* when the date has changed.
C15_AutoExecuteOffDoesNothing ==
    /\ [](~config.auto_execute =>
            \A c \in Calls : venueLog[c] = <<>> /\ epc[c] \in {"idle", "done"})
    /\ [][\A c \in Calls :
            (Starts(c) /\ ~config.auto_execute) =>
                /\ epc'[c] = "done"
                /\ eres'[c] = Failure("Auto-execute disabled", "none")
                /\ venueLog'[c] = <<>>
                /\ UNCHANGED <<open_positions, daily_trades, daily_loss, last_reset,
                               venuePositions, venueOrders, riskOrders>>]_vars

\* a call refused for auto_execute on the day after the last reset
C15_Witness ==
    /\ ~config.auto_execute
    /\ today # last_reset
    /\ \E c \in Calls :
        /\ epc[c] = "done"
        /\ eres[c].text = "Auto-execute disabled"

\* the checks of the risk gate that need no venue call, in the stated order
GateOrder == <<"Trading is disabled in config", "Daily trade limit reached",
               "Max open positions reached", "Daily loss limit reached">>

\* the checks that fail for the counters as the evaluation leaves them
FailingChecks ==
    {i \in 1..Len(GateOrder) :
        \/ i = 1 /\ ~config.enabled
        \/ i = 2 /\ daily_trades' >= config.max_daily_trades
        \/ i = 3 /\ Cardinality(Tracked) >= config.max_open_positions
        \/ i = 4 /\ config.stop_on_daily_loss > 0
                 /\ daily_loss' >= config.stop_on_daily_loss}

BalanceReasons == {"Balance too low", "Failed to check balance"}

\* C16: the risk gate reports the first failing check in the order
\* trading-enabled, daily-trade-limit, open-position-limit, daily-loss-limit,
\* balance (the daily trade limit when that and the open-position limit both
\* fail), and the balance is queried only when the four checks before it pass.
C16_GateReportsFirstFailingCheck ==
    /\ [][\A c \in Calls :
            (Starts(c) /\ config.auto_execute) =>
                IF FailingChecks = {}
                THEN /\ epc'[c] = "balance"
                     /\ venueLog'[c] = <<"get_futures_balance">>
                     /\ gate'[c] = "unset"
                ELSE /\ \E i \in FailingChecks :
                        /\ \A j \in FailingChecks : i <= j
                        /\ gate'[c] = GateOrder[i]
                     /\ epc'[c] = "done"
                     /\ venueLog'[c] = <<>>]_vars
    /\ [](\A c \in Calls :
            /\ gate[c] \in BalanceReasons =>
                    venueLog[c] = <<"get_futures_balance">>
            /\ venueLog[c] # <<>> =>
                    \A i \in 1..Len(GateOrder) : gate[c] # GateOrder[i])

\* a call stopped by the daily trade limit while the open-position limit is
\* reached as well
C16_Witness ==
    \E c \in Calls :
        /\ epc[c] = "done"
        /\ gate[c] = "Daily trade limit reached"
        /\ venueLog[c] = <<>>
        /\ config.enabled
        /\ daily_trades >= config.max_daily_trades
        /\ Cardinality(Tracked) >= config.max_open_positions

\* C17: every entry order carries the leverage min(signal.leverage,
\* config.max_leverage), which is at most config.max_leverage.
C17_LeverageCapped ==
    \A o \in venueOrders :
        /\ o.leverage <= config.max_leverage
        /\ o.leverage <= esig[o.call].leverage
        /\ o.leverage = config.max_leverage \/ o.leverage = esig[o.call].leverage

\* a signal of leverage 50 under a maximum of 25: the order carries 25
C17_Witness ==
    \E o \in venueOrders :
        /\ esig[o.call].leverage = 50
        /\ config.max_leverage = 25
        /\ o.leverage = 25

\* the price an order is sized from: the limit price, the mark price of a
\* market order
SizingPrice(o) == IF o.kind = "LIMIT" THEN o.price ELSE Asset(o.symbol).mark_price

\* C18: the quantity of every entry order is a multiple of the venue's
\* quantity step and differs from raw = trade_amount * leverage / price by at
\* most half a step.
C18_QuantityNearestStepMultiple ==
    \A o \in venueOrders :
        LET step == Asset(o.symbol).quantity_step
            price == SizingPrice(o)
            raw == config.trade_amount_usdt * o.leverage * Micro
            diff == o.quantity * price - raw
        IN /\ o.quantity % step = 0
           /\ 2 * (IF diff < 0 THEN 0 - diff ELSE diff) <= step * price

CreateCalls(c) ==
    {i \in 1..Len(venueLog[c]) :
        venueLog[c][i] \in {"create_market_order", "create_limit_order"}}

\* C19: a call that has passed all gates submits exactly one order; the order
\* is a market order for MARKET and a limit order at entry_price for LIMIT,
\* its side is the signal_type, its quantity is computed from the mark price
\* for MARKET and from entry_price for LIMIT, and the success result reports
\* that price as entry_price.
C19_OrderMatchesSignal ==
    \A c \in Calls :
        /\ Cardinality(CreateCalls(c)) <= 1
        /\ (epc[c] \in {"order", "requery", "set_risk"} \/ eres[c].success)
                => Cardinality(CreateCalls(c)) = 1
        /\ \A i \in CreateCalls(c) :
                venueLog[c][i] = IF esig[c].order_type = "MARKET"
                                 THEN "create_market_order" ELSE "create_limit_order"
        /\ \A o \in venueOrders :
            o.call = c =>
                LET price == IF esig[c].order_type = "MARKET"
                             THEN Asset(esig[c].symbol).mark_price
                             ELSE esig[c].entry_price
                IN /\ CreateCalls(c) # {}
                   /\ o.kind = esig[c].order_type
                   /\ o.side = esig[c].signal_type
                   /\ o.symbol = esig[c].symbol
                   /\ o.price = IF o.kind = "LIMIT" THEN esig[c].entry_price ELSE None
                   /\ o.quantity =
                        QuantityStr(Quantity(config.trade_amount_usdt, o.leverage, price,
                                             Asset(o.symbol).quantity_step),
                                    Asset(o.symbol).quantity_step,
                                    Asset(o.symbol).step_repr)
                   /\ eres[c].success => eres[c].entry_price = price
        /\ eres[c].success => Placed(c)

\* LONG MARKET, leverage 10, 10 USDT a trade, mark price 50: a LONG market
\* order of quantity 2 and a success result with entry_price 50
C19_Witness ==
    \E c \in Calls, o \in venueOrders :
        /\ o.call = c
        /\ config.trade_amount_usdt = 10
        /\ esig[c].order_type = "MARKET" /\ esig[c].signal_type = "LONG"
        /\ esig[c].leverage = 10
        /\ o.kind = "MARKET" /\ o.side = "LONG"
        /\ o.quantity = 2 * Micro
        /\ eres[c].success
        /\ eres[c].entry_price = 50

\* C20: no entry point of the pipeline lets an error escape. A call of
\* execute_signal, close_position, update_sl_tp or update_leverage has a
\* TradeResult exactly when it has returned, and keeps it (a command call until
\* its task calls again); and a Venue Gateway
\* call that raised (balance, position list, asset lookup, order placement,
\* close, partial close, risk order) makes the call return the failure result
\* that names it.
C20_EveryCallReturnsOneResult ==
    /\ [](\A c \in Calls :
            /\ epc[c] # "raised"
            /\ (epc[c] = "done") <=> (eres[c] # NoResult)
            /\ fault[c] # "none" =>
                /\ epc[c] = "done"
                /\ eres[c] = IF fault[c] = "get_futures_balance"
                             THEN Failure("Risk limit", "Failed to check balance")
                             ELSE Failure("Execution error", fault[c]))
    /\ [](\A k \in Cmds :
            /\ cpc[k] # "raised"
            /\ (cpc[k] = "done") <=> (cres[k] # NoResult)
            /\ cmdFault[k] # "none" =>
                /\ cpc[k] = "done"
                /\ cres[k] = Failure(ErrorText(ccmd[k].kind), cmdFault[k]))
    /\ [][/\ \A c \in Calls : epc[c] = "done" => UNCHANGED <<epc[c], eres[c]>>
          /\ \A k \in Cmds : cpc[k] = "done" =>
                \/ UNCHANGED <<cpc[k], cres[k]>>
                \/ cpc'[k] = "list_open" /\ cres'[k] = NoResult]_vars

\* an execute_signal call whose set_risk_order raised and a close_position
\* call whose close raised: both have returned their failure
C20_Witness ==
    /\ \E c \in Calls :
        /\ fault[c] = "set_risk_order"
        /\ eres[c] = Failure("Execution error", "set_risk_order")
    /\ \E k \in Cmds :
        /\ cmdFault[k] = "close"
        /\ cres[k] = Failure("Close error", "close")

\* ---------------------------------------------- close, edit, leverage claims
\* positions.list_open of command call k returns, without raising
Lists(k) == cpc[k] = "list_open" /\ cpc'[k] # "list_open" /\ cmdFault'[k] = "none"

\* what is left of the pipeline and of the venue when a call changes nothing
pipelineState == <<open_positions, daily_trades, daily_loss, last_reset,
                   venuePositions, posQty, venueOrders, riskOrders, venueCloses,
                   partials>>

\* C21: closing a position the venue does not hold changes nothing. When the
\* position list of a close_position call comes back without the symbol, the
\* call returns the failure 'No open position' at once, having made no other
\* Venue Gateway call (no close, no partial close), and the tracking set, the
\* daily counters and the venue are as they were; so a close repeated any
\* number of times fails the same way in the same state.
C21_CloseOfAbsentPositionIsIdempotent ==
    [][\A k \in Cmds :
         (ccmd[k].kind = "close" /\ Lists(k) /\ ccmd[k].symbol \notin venuePositions) =>
            /\ cpc'[k] = "done"
            /\ cres'[k] = Failure("No open position", ccmd[k].symbol)
            /\ cmdLog'[k] = <<"list_open">>
            /\ repeats'[k] >= 1
            /\ UNCHANGED pipelineState]_vars

\* the same close was made MaxRepeats times in a row for a symbol without a
\* position, while a signal is tracked and counted: each time it failed
C21_Witness ==
    \E k \in Cmds :
        /\ ccmd[k].kind = "close"
        /\ cpc[k] = "done"
        /\ repeats[k] = MaxRepeats
        /\ cres[k] = Failure("No open position", ccmd[k].symbol)
        /\ open_positions[ccmd[k].signal_id] # NoSignal
        /\ daily_trades > 0

\* command call k returns the success of a full close of signal i
FullCloseSucceeds(k, i) ==
    /\ ccmd[k].kind = "close"
    /\ ccmd[k].signal_id = i
    /\ ccmd[k].percentage # None
    /\ ccmd[k].percentage >= 100
    /\ cpc[k] = "close"
    /\ cpc'[k] = "done"
    /\ cres'[k].success

\* C22: a tracked signal_id stops being tracked only in the step in which a
\* close_position call for that signal_id with percentage >= 100 returns
\* success; no other step (a partial close, a failed close, a close for
\* another signal_id, update_sl_tp, update_leverage, the daily reset, a new
\* signal) removes an entry. And a full close the venue carried out returns
\* success whether or not its signal_id was tracked, leaving the other
\* entries as they were.
C22_TrackingLeftOnlyByFullClose ==
    /\ [][\A i \in SignalIds :
            (open_positions[i] # NoSignal /\ open_positions'[i] = NoSignal) =>
                \E k \in Cmds : FullCloseSucceeds(k, i)]_vars
    /\ [][\A k \in Cmds :
            (cpc[k] = "close" /\ cpc'[k] = "done" /\ cmdFault'[k] = "none") =>
                /\ cres'[k] = Success("Position closed", ccmd[k].symbol)
                /\ \A i \in SignalIds \ {ccmd[k].signal_id} :
                      open_positions'[i] = open_positions[i]]_vars

\* signals a and c were executed and tracked; a partial close of a was
\* carried out and a is still tracked; the full close of c succeeded and c is
\* tracked no more
C22_Witness ==
    /\ partials = 1
    /\ open_positions["a"] # NoSignal
    /\ open_positions["c"] = NoSignal
    /\ \E c \in Calls : eres[c].success /\ esig[c].signal_id = "c"
    /\ \E k \in Cmds :
        /\ ccmd[k].kind = "close" /\ ccmd[k].signal_id = "c"
        /\ ccmd[k].percentage >= 100
        /\ cres[k].success

\* how many times command call k has invoked Venue Gateway method name
Issued(k, name) == Cardinality({n \in 1..Len(cmdLog[k]) : cmdLog[k][n] = name})

\* position.quantity * percentage / 100 rounded to the nearest multiple of
\* the asset's quantity step (in millionths)
StepRounded(k) ==
    LET step == Asset(ccmd[k].symbol).quantity_step
    IN Round(cposQty[k] * ccmd[k].percentage, 100 * step) * step

\* a close_position call that found a position of its symbol, was given a
\* percentage and has returned, its asset lookup (if any) answered
ClosedFound(k) ==
    /\ ccmd[k].kind = "close"
    /\ cpc[k] = "done"
    /\ ccmd[k].percentage # None
    /\ cres[k].text # "No open position"
    /\ cmdFault[k] \notin {"list_open", "assets.get"}

\* C23: a close_position call that found a position issues exactly one
\* closing call: positions.close and no close_partial when percentage >= 100,
\* otherwise close_partial and no close, with the quantity
\* position.quantity * percentage / 100 rounded to the quantity step (the
\* unrounded quantity when the venue knows no step for the asset).
C23_OneClosingCallOfTheRightKind ==
    \A k \in Cmds : ClosedFound(k) =>
        IF ccmd[k].percentage >= 100
        THEN Issued(k, "close") = 1 /\ Issued(k, "close_partial") = 0
        ELSE /\ Issued(k, "close") = 0 /\ Issued(k, "close_partial") = 1
             /\ cmdSent[k].quantity \in {Arg(StepRounded(k)),
                                         Arg((cposQty[k] * ccmd[k].percentage) \div 100)}

\* C24: the quantity of every partial-close call differs from
\* position.quantity * p / 100 by less than one quantity step of the asset.
C24_PartialCloseWithinOneStep ==
    \A k \in Cmds : cmdSent[k].quantity # Null =>
        LET step == Asset(ccmd[k].symbol).quantity_step
            diff == 100 * cmdSent[k].quantity.value - cposQty[k] * ccmd[k].percentage
        IN (IF diff < 0 THEN 0 - diff ELSE diff) < 100 * step

\* command call k, in the middle of its call, takes a step
CmdActs(k) == cpc[k] \notin {"idle", "done"} /\ cpc'[k] # cpc[k]

\* null for a price the command omits, the price otherwise
Passed(price) == IF price = None THEN Null ELSE [null |-> FALSE, value |-> price]

C26_LeverageUpdateOnlyFails ==
    /\ [][\A k \in Cmds : (ccmd[k].kind = "leverage" /\ Lists(k)) =>
            /\ cpc'[k] = "done"
            /\ cres'[k] = IF ccmd[k].symbol \notin venuePositions
                          THEN Failure("No open position", ccmd[k].symbol)
                          ELSE Failure("Leverage update not supported yet", "none")]_vars
    /\ [][\A k \in Cmds : (ccmd[k].kind = "leverage" /\ CmdActs(k)) =>
            /\ UNCHANGED pipelineState
            /\ cpc'[k] = "done"]_vars
    /\ [](\A k \in Cmds : ccmd[k].kind = "leverage" =>
            /\ ~cres[k].success
            /\ cmdLog[k] = <<"list_open">>
            /\ cpc[k] = "done" => cres[k].text \in {"No open position",
                                                    "Leverage update not supported yet",
                                                    "Leverage error"})

\* an update_leverage for a symbol with an open position returned 'not
\* supported yet', with a signal tracked and counted
C26_Witness ==
    \E k \in Cmds :
        /\ ccmd[k].kind = "leverage"
        /\ ccmd[k].symbol \in venuePositions
        /\ cres[k] = Failure("Leverage update not supported yet", "none")
        /\ daily_trades > 0
        /\ \E i \in SignalIds : open_positions[i] # NoSignal

\* ------------------------------------------------------ daily reset claims
\* call c of execute_signal evaluates the risk limits
Evaluates(c) == Starts(c) /\ config.auto_execute

\* C27: the daily counters are reset lazily, by a risk evaluation and by
\* nothing else. A risk evaluation leaves last_reset at the current date; when
\* the date had changed it sets daily_trades and daily_loss to 0 and its gate
\* decides as it decides for counters of 0, so the trades of the day before
\* reject nothing; when the date had not changed it leaves the counters as
\* they are. No other step changes last_reset or lowers a counter.
C27_CountersResetByRiskEvaluationOnly ==
    /\ [][\A c \in Calls : Evaluates(c) =>
            /\ last_reset' = today
            /\ IF today # last_reset
               THEN /\ daily_trades' = 0
                    /\ daily_loss' = 0
                    /\ IF epc'[c] = "done"
                       THEN /\ RiskChecks(0, 0) # "OK"
                            /\ eres'[c] = Failure("Risk limit", RiskChecks(0, 0))
                       ELSE RiskChecks(0, 0) = "OK"
               ELSE UNCHANGED <<daily_trades, daily_loss>>]_vars
    /\ [][(last_reset' # last_reset \/ daily_trades' < daily_trades
             \/ daily_loss' < daily_loss) =>
            /\ today # last_reset
            /\ \E c \in Calls : Evaluates(c)]_vars

\* with one trade a day allowed, a call placed its order and was counted; a
\* day later another call reset the count to 0 and passed the gate of the
\* trade limit: it is waiting for the balance
C27_Witness ==
    /\ config.max_daily_trades = 1
    /\ today > 0
    /\ last_reset = today
    /\ daily_trades = 0
    /\ \E c, d \in Calls :
        /\ eres[c].success
        /\ epc[d] = "balance"

\* --------------------------------------------------- wire default claims
\* C28: a key the payload lacks has its default when the callback runs. A
\* close built from a payload without percentage has percentage 100: its call
\* asks for no asset and no partial close, and when it succeeds it has issued
\* the full close and its signal_id is tracked no more. A signal built from a
\* payload without leverage has leverage 1, and so has the order placed for it.
C28_AbsentFieldsTakeDefaults ==
    /\ [](\A k \in Cmds : (ccmd[k].kind = "close" /\ ccmd[k].wire_percentage = Absent) =>
            /\ ccmd[k].percentage = 100
            /\ Issued(k, "assets.get") = 0
            /\ Issued(k, "close_partial") = 0
            /\ cres[k].success => Issued(k, "close") = 1)
    /\ [][\A k \in Cmds :
            (ccmd[k].kind = "close" /\ ccmd[k].wire_percentage = Absent
               /\ CmdActs(k) /\ cres'[k].success) =>
                open_positions'[ccmd[k].signal_id] = NoSignal]_vars
    /\ [](\A c \in Calls : (esig[c] # NoSignal /\ esig[c].wire_leverage = Absent) =>
            /\ esig[c].leverage = 1
            /\ \A o \in venueOrders : o.call = c => o.leverage = 1)

\* the signal of a payload without leverage was executed, with leverage 1, and
\* tracked; the close of a payload without percentage for it succeeded as a
\* full close and removed it from the tracking
C28_Witness ==
    \E c \in Calls, k \in Cmds :
        /\ esig[c] # NoSignal
        /\ esig[c].wire_leverage = Absent
        /\ eres[c].success
        /\ \E o \in venueOrders : o.call = c /\ o.leverage = 1
        /\ ccmd[k].kind = "close"
        /\ ccmd[k].wire_percentage = Absent
        /\ ccmd[k].signal_id = esig[c].signal_id
        /\ cres[k].success
        /\ cmdLog[k] = <<"list_open", "close">>
        /\ open_positions[ccmd[k].signal_id] = NoSignal

\* ------------------------------------------------------- heartbeat claims
\* C29: the heartbeat lives no longer than the read loop it was created for.
\* A ping task that has neither ended nor been cancelled exists only while
\* start() is in its read loop, so it is cancelled when the loop exits and
\* before connect() is called again, and two are never alive together; and
\* every "ping" was sent on the transport the read loop was iterating at that
\* moment.
C29_HeartbeatEndsWithReadLoop ==
    /\ [](PingAlive => pc \in ReadLoopStates)
    /\ [](\A p \in probes : p.listened)
    /\ [][(pc \in ReadLoopStates /\ pc' \notin ReadLoopStates) =>
            pingTask' \in {"cancelled", "ended"}]_vars

\* a connection was listened to and lost, its ping task was cancelled while
\* it was asleep, and start() is connecting again
C29_Witness ==
    /\ pc = "connecting"
    /\ running
    /\ pingTask = "cancelled"
    /\ tstate[listenT] = "closed"

\* C30: while start() is in the read loop of an open connection, the ping
\* task of that connection has neither ended nor been cancelled.
C30_HeartbeatLivesWhileListening ==
    (pc \in ReadLoopStates /\ tstate[listenT] = "open") => PingAlive

\* ------------------------------------------------------ connection claims
\* the transports that are open
OpenTransports == {t \in Transports : tstate[t] = "open"}

\* C40: the client holds at most one open transport at any time: when
\* connect() opens a transport no transport it opened earlier is still open.
C40_AtMostOneOpenTransport == Cardinality(OpenTransports) <= 1

\* C31: a callback that has not returned does not hold back the frames of
\* other symbols. While the callback of a NEW_SIGNAL frame is running and the
\* oldest buffered frame is a NEW_SIGNAL frame of another symbol, the read
\* loop can take that frame and start its callback.
C31_OtherSymbolNotStalled ==
    (/\ pc = "handling"
     /\ inbox # <<>>
     /\ message.symbol # "none"
     /\ Head(inbox).frame.symbol # "none"
     /\ Head(inbox).frame.symbol # message.symbol)
        => ENABLED (\E f \in Frames : FrameArrives(f))

\* ---------------------------------------------------- concurrency claims
\* C32: a full close of signal X on symbol S that returned success while the
\* execute_signal call for X was in flight leaves X untracked once that call
\* has returned success too.
C32_CloseDoesNotRaceTracking ==
    \A k \in Cmds, c \in Calls :
        (/\ ccmd[k].kind = "close"
         /\ ccmd[k].percentage # None
         /\ ccmd[k].percentage >= 100
         /\ cres[k].success
         /\ c \in closedDuring[k]
         /\ esig[c].signal_id = ccmd[k].signal_id
         /\ esig[c].symbol = ccmd[k].symbol
         /\ eres[c].success)
            => open_positions[ccmd[k].signal_id] = NoSignal

\* the execute_signal calls made so far are for symbols different from each
\* other
DifferentSymbols ==
    \A c \in Calls, d \in Calls :
        (c # d /\ esig[c] # NoSignal /\ esig[d] # NoSignal)
            => esig[c].symbol # esig[d].symbol

\* C33: with execute_signal calls for different symbols, concurrent or not,
\* the tracking set never holds more than max_open_positions entries and
\* daily_trades never exceeds max_daily_trades.
C33_LimitsHoldUnderConcurrency ==
    (config.enabled /\ DifferentSymbols)
        => /\ Cardinality(Tracked) <= config.max_open_positions
           /\ daily_trades <= config.max_daily_trades

C35_OrdersWithinDailyLimit ==
    today = 0 => Cardinality(venueOrders) <= config.max_daily_trades

\* ------------------------------------------------------- tracking claims
\* C36: when a close_position call with percentage >= 100 for symbol S
\* returns success, the tracking set holds no signal of symbol S, whatever
\* signal_id the command carried.
C36_FullCloseClearsSymbol ==
    [][\A k \in Cmds :
          (/\ cpc[k] = "close"
           /\ cpc'[k] = "done"
           /\ cres'[k].success
           /\ ccmd[k].percentage # None
           /\ ccmd[k].percentage >= 100)
              => \A i \in SignalIds :
                     open_positions'[i] # NoSignal
                         => open_positions'[i].symbol # ccmd[k].symbol]_vars

\* ---------------------------------------------------------- sizing claims
\* C37: the quantity of every success result of execute_signal is the number
\* the quantity text submitted in the order call denotes.
C37_ResultQuantityIsOrderQuantity ==
    \A c \in Calls :
        (eres[c].success /\ Placed(c)) => eres[c].quantity = Order(c).quantity

\* C38: every entry order submitted to the venue carries a quantity above
\* zero.
C38_OrderQuantityPositive ==
    \A c \in Calls : epc[c] = "order" => Order(c).quantity > 0

\* the call carries a LIMIT signal without entry_price
Priceless(c) ==
    /\ esig'[c] # NoSignal
    /\ esig'[c].order_type = "LIMIT"
    /\ ~esig'[c].has_entry_price

====
